---- MODULE Spec2Model ----
(***************************************************************************)
(* Resource-quantity parsing and deployment-template validation of         *)
(* devtron: util.MemoryToNumber / util.CpuToNumber / util.ParseFloat /     *)
(* util.Autoscale (src/util/helper.go) and DeploymentTemplateValidate      *)
(* (src/unnamed/part_000).                                                 *)
(*                                                                         *)
(* Go strings that the parser reads are sequences of one-character         *)
(* strings.  float64 quantities are exact decimal rationals                *)
(* sign * n / 10^d with n an arbitrary-precision natural (little-endian    *)
(* limbs in base 1000), plus +Inf and NaN; inside the bounds of the model  *)
(* every float64 operation of the code is exact or order-preserving, so    *)
(* the comparisons of the code and of the model agree.                     *)
(***************************************************************************)
EXTENDS Integers, Sequences, FiniteSets, TLC

VARIABLES
    memoryParser,    \* util.memoryParser: NilParser until the first MemoryToNumber
    cpuParser,       \* util.cpuParser: NilParser until the first CpuToNumber
    FormatCheckers,  \* gojsonschema.FormatCheckers: the registered format names
    templatejson,    \* the document handed to the call
    schemaExists,    \* whether os.Stat finds schema/<schemafile>.json
    engineFails,     \* whether gojsonschema.Validate returns an error
    engineErrors,    \* result.Errors() of the schema engine for this document
    budget,          \* preparation steps left to the caller
    arg,             \* the string handed to the quantity parser
    input,           \* the value handed to a format predicate
    pc,              \* "setup" before the call, "done" after it; of concurrent
                     \* calls, where each of them is
    callee,          \* the function that was called
    steps,           \* what the call did, in order; of concurrent calls, their
                     \* accesses <<call, "read" or "write", variable>> to shared state
    ret              \* what the call returned

vars == <<memoryParser, cpuParser, FormatCheckers, templatejson, schemaExists,
          engineFails, engineErrors, budget, arg, input, pc, callee, steps, ret>>

(***************************************************************************)
(* Arbitrary-precision naturals.                                           *)
(***************************************************************************)
RECURSIVE BigTrim(_)
BigTrim(a) ==
    IF a = <<>> THEN <<>>
    ELSE IF a[Len(a)] = 0 THEN BigTrim(SubSeq(a, 1, Len(a) - 1)) ELSE a

RECURSIVE BigAddC(_, _, _)
BigAddC(a, b, c) ==
    IF a = <<>> /\ b = <<>> THEN (IF c = 0 THEN <<>> ELSE <<c>>)
    ELSE LET x == IF a = <<>> THEN 0 ELSE a[1]
             y == IF b = <<>> THEN 0 ELSE b[1]
             s == x + y + c
             ra == IF a = <<>> THEN <<>> ELSE Tail(a)
             rb == IF b = <<>> THEN <<>> ELSE Tail(b)
         IN  <<s % 1000>> \o BigAddC(ra, rb, s \div 1000)

BigAdd(a, b) == BigTrim(BigAddC(a, b, 0))

\* a * k + c for a small k (k < 1000) and carry c
RECURSIVE BigMulSmallC(_, _, _)
BigMulSmallC(a, k, c) ==
    IF a = <<>> THEN (IF c = 0 THEN <<>> ELSE <<c % 1000>> \o BigMulSmallC(<<>>, k, c \div 1000))
    ELSE LET p == a[1] * k + c
         IN  <<p % 1000>> \o BigMulSmallC(Tail(a), k, p \div 1000)

BigMulSmall(a, k) == BigTrim(BigMulSmallC(a, k, 0))

RECURSIVE BigMul(_, _)
BigMul(a, b) ==
    IF a = <<>> \/ b = <<>> THEN <<>>
    ELSE BigAdd(BigMulSmall(a, b[1]), BigTrim(<<0>> \o BigMul(a, Tail(b))))

RECURSIVE BigPow(_, _)
BigPow(a, k) == IF k = 0 THEN <<1>> ELSE BigMul(a, BigPow(a, k - 1))

RECURSIVE BigLessFrom(_, _, _)
BigLessFrom(a, b, i) ==
    IF i = 0 THEN FALSE
    ELSE IF a[i] # b[i] THEN a[i] < b[i]
    ELSE BigLessFrom(a, b, i - 1)

BigLess(a, b) ==
    IF Len(a) # Len(b) THEN Len(a) < Len(b) ELSE BigLessFrom(a, b, Len(a))

BigDiv10(a) ==
    BigTrim([i \in 1..Len(a) |->
        (a[i] \div 10) + (IF i < Len(a) THEN (a[i + 1] % 10) * 100 ELSE 0)])

\* a * 10^k
BigShift10(a, k) ==
    LET small == IF k % 3 = 0 THEN 1 ELSE IF k % 3 = 1 THEN 10 ELSE 100
    IN  IF a = <<>> THEN <<>>
        ELSE [i \in 1..(k \div 3) |-> 0] \o BigMulSmall(a, small)

\* a number written in groups of three decimal digits, most significant first
RECURSIVE Groups(_)
Groups(g) == IF g = <<>> THEN <<>> ELSE Groups(Tail(g)) \o <<Head(g)>>

BigOf(g) == BigTrim(Groups(g))

(***************************************************************************)
(* float64 quantities: [k, s, n, d] is s * n / 10^d when k = "fin".        *)
(***************************************************************************)
RECURSIVE NormND(_, _)
NormND(n, d) ==
    IF n = <<>> THEN <<n, 0>>
    ELSE IF d > 0 /\ n[1] % 10 = 0 THEN NormND(BigDiv10(n), d - 1)
    ELSE <<n, d>>

FinOf(s, nd) ==
    [k |-> "fin", s |-> IF nd[1] = <<>> THEN 1 ELSE s, n |-> nd[1], d |-> nd[2]]

Fin(s, n, d) == FinOf(s, NormND(n, d))

Zero == Fin(1, <<>>, 0)
Inf(s) == [k |-> "inf", s |-> s, n |-> <<>>, d |-> 0]
NaN == [k |-> "nan", s |-> 1, n |-> <<>>, d |-> 0]
FromBig(n) == Fin(1, n, 0)

\* magnitudes of 1.8 * 10^308 and more are beyond float64 (math.MaxFloat64 is
\* 1.797...e308): 10^308 has 103 limbs, the most significant one below 180
Overflows(v) ==
    /\ v.k = "fin"
    /\ v.d = 0
    /\ \/ Len(v.n) > 103
       \/ Len(v.n) = 103 /\ v.n[103] >= 180

Round64(v) == IF Overflows(v) THEN Inf(v.s) ELSE v

\* the Go operator * on float64
FMul(a, b) ==
    IF a.k = "nan" \/ b.k = "nan" THEN NaN
    ELSE IF a.k = "inf" \/ b.k = "inf"
         THEN (IF (a.k = "fin" /\ a.n = <<>>) \/ (b.k = "fin" /\ b.n = <<>>)
               THEN NaN ELSE Inf(a.s * b.s))
    ELSE IF a.n # <<>> /\ b.n # <<>> /\ Len(a.n) + Len(b.n) > 105 + a.d + b.d
         THEN Inf(a.s * b.s)
    ELSE Round64(Fin(a.s * b.s, BigMul(a.n, b.n), a.d + b.d))

MagLess(a, b) ==
    BigLess(BigShift10(a.n, IF b.d > a.d THEN b.d - a.d ELSE 0),
            BigShift10(b.n, IF a.d > b.d THEN a.d - b.d ELSE 0))

\* the Go operator < on float64
FLess(a, b) ==
    IF a.k = "nan" \/ b.k = "nan" THEN FALSE
    ELSE IF a.s # b.s THEN a.s < b.s
    ELSE IF a.k = "inf" THEN (a.s = -1 /\ b.k = "fin")
    ELSE IF b.k = "inf" THEN b.s = 1
    ELSE IF a.s = 1 THEN MagLess(a, b) ELSE MagLess(b, a)

(***************************************************************************)
(* Go strings as sequences of characters, and the Go library calls the     *)
(* parser makes on them.                                                   *)
(***************************************************************************)
DigitChars == <<"0", "1", "2", "3", "4", "5", "6", "7", "8", "9">>
IsDigit(c) == \E i \in 1..10 : DigitChars[i] = c
DigitVal(c) == (CHOOSE i \in 1..10 : DigitChars[i] = c) - 1

\* the index after the run of decimal digits that starts at index i of s
RECURSIVE DigitRun(_, _)
DigitRun(s, i) == IF i <= Len(s) /\ IsDigit(s[i]) THEN DigitRun(s, i + 1) ELSE i

RECURSIVE BigOfDigits(_)
BigOfDigits(ds) ==
    IF ds = <<>> THEN <<>>
    ELSE BigAdd(BigMulSmall(BigOfDigits(SubSeq(ds, 1, Len(ds) - 1)), 10),
                BigTrim(<<DigitVal(ds[Len(ds)])>>))

\* a decimal exponent, saturating as strconv does (e < 10000)
RECURSIVE NatOfDigits(_)
NatOfDigits(ds) ==
    IF ds = <<>> THEN 0
    ELSE LET e == NatOfDigits(SubSeq(ds, 1, Len(ds) - 1))
         IN  IF e < 10000 THEN e * 10 + DigitVal(ds[Len(ds)]) ELSE e

\* strings.Join of the characters
RECURSIVE Text(_)
Text(s) == IF s = <<>> THEN "" ELSE Head(s) \o Text(Tail(s))

\* strconv.ParseFloat(s, 64) on decimal input: [sign] digits [. digits]
\* [(e|E) [sign] digits], at least one mantissa digit, the whole string
\* consumed.  The text is read from left to right, each step handing what it
\* has found to the next one.

\* the float64 nearest to sgn * mant * 10^exp10
atofRound(sgn, exact) ==
    IF Overflows(exact) THEN [val |-> Inf(sgn), err |-> "range"]
    ELSE [val |-> exact, err |-> "nil"]

atofValue(sgn, mant, exp10) ==
    IF mant = <<>> THEN [val |-> Zero, err |-> "nil"]
    ELSE IF exp10 > 400 THEN [val |-> Inf(sgn), err |-> "range"]
    ELSE IF exp10 < -400 THEN [val |-> Zero, err |-> "nil"]
    ELSE atofRound(sgn, Fin(sgn,
                            IF exp10 >= 0 THEN BigShift10(mant, exp10) ELSE mant,
                            IF exp10 >= 0 THEN 0 ELSE 0 - exp10))

\* the mantissa digits intDs . fracDs end before index i3; the digits of an
\* exponent are at j2..j3-1
readExponent(s, sgn, intDs, fracDs, i3, j2, j3) ==
    LET n == Len(s)
        hasExp == i3 <= n /\ s[i3] \in {"e", "E"}
        esgn == IF i3 + 1 <= n /\ s[i3 + 1] = "-" THEN -1 ELSE 1
        end == IF hasExp THEN j3 ELSE i3
    IN  IF Len(intDs) + Len(fracDs) > 0 /\ (hasExp => j3 > j2) /\ end = n + 1
        THEN atofValue(sgn, BigOfDigits(intDs \o fracDs),
                       (IF hasExp THEN esgn * NatOfDigits(SubSeq(s, j2, j3 - 1)) ELSE 0)
                        - Len(fracDs))
        ELSE [val |-> Zero, err |-> "syntax"]

\* the integer digits are at i1..i2-1, the fraction ends before index i3
readFraction(s, sgn, i1, i2, i3) ==
    LET n == Len(s)
        hasDot == i2 <= n /\ s[i2] = "."
        j1 == i3 + 1
        j2 == IF j1 <= n /\ s[j1] \in {"+", "-"} THEN j1 + 1 ELSE j1
    IN  readExponent(s, sgn, SubSeq(s, i1, i2 - 1),
                     IF hasDot THEN SubSeq(s, i2 + 1, i3 - 1) ELSE <<>>,
                     i3, j2, DigitRun(s, j2))

readMantissa(s, sgn, i1, i2) ==
    readFraction(s, sgn, i1, i2,
                 IF i2 <= Len(s) /\ s[i2] = "." THEN DigitRun(s, i2 + 1) ELSE i2)

strconvParseFloat(s) ==
    LET i1 == IF s # <<>> /\ s[1] \in {"+", "-"} THEN 2 ELSE 1
    IN  readMantissa(s, IF s # <<>> /\ s[1] = "-" THEN -1 ELSE 1, i1, DigitRun(s, i1))

\* strconv.ParseInt(s, 10, 64): [sign] digits, the whole string consumed
parseIntDigits(s, sgn, i1, i2) ==
    IF i2 > i1 /\ i2 = Len(s) + 1
    THEN [val |-> sgn * NatOfDigits(SubSeq(s, i1, Len(s))), err |-> "nil"]
    ELSE [val |-> 0, err |-> "syntax"]

strconvParseInt(s) ==
    LET i1 == IF s # <<>> /\ s[1] \in {"+", "-"} THEN 2 ELSE 1
    IN  parseIntDigits(s, IF s # <<>> /\ s[1] = "-" THEN -1 ELSE 1, i1, DigitRun(s, i1))

\* math.Pow10(n)
mathPow10(n) ==
    IF n < -323 THEN Zero
    ELSE IF n > 308 THEN Inf(1)
    ELSE IF n >= 0 THEN FromBig(BigShift10(<<1>>, n))
    ELSE Fin(1, <<1>>, 0 - n)

\* strings.Replace(str, ",", "", -1)
RemoveCommas(str) == SelectSeq(str, LAMBDA c : c # ",")

\* strings.IndexAny(str, chars) + 1: the first index holding one of chars, 0 for none
IndexAny(str, chars) ==
    IF \E i \in 1..Len(str) : str[i] \in chars
    THEN CHOOSE i \in 1..Len(str) :
            str[i] \in chars /\ \A j \in 1..(i - 1) : str[j] \notin chars
    ELSE 0

\* lines 216-231: the base and the exponent have been parsed
ParseFloatScaled(baseVal, expVal) ==
    IF baseVal.err # "nil" THEN [val |-> Zero, err |-> baseVal.err]
    ELSE IF expVal.err # "nil" THEN [val |-> Zero, err |-> expVal.err]
    ELSE [val |-> FMul(baseVal.val, mathPow10(expVal.val)), err |-> "nil"]

\* lines 211-231: str has no comma left, pos is strings.IndexAny(str, "eE") + 1
ParseFloatAt(str, pos) ==
    IF pos = 0 THEN strconvParseFloat(str)
    ELSE ParseFloatScaled(strconvParseFloat(SubSeq(str, 1, pos - 1)),
                          strconvParseInt(SubSeq(str, pos + 1, Len(str))))

ParseFloatStripped(str) == ParseFloatAt(str, IndexAny(str, {"e", "E"}))

\* lines 203-208: first is what strconv.ParseFloat made of str
ParseFloatRetry(str, first) ==
    IF first.err = "nil" THEN first ELSE ParseFloatStripped(RemoveCommas(str))

ParseFloat(str) == ParseFloatRetry(str, strconvParseFloat(str))

(***************************************************************************)
(* The quantity parser of src/util/helper.go.                              *)
(***************************************************************************)
\* the compiled patterns: group 1 is \d*e?\d* in both; group 2 is one unit
\* letter of `units`, followed by an optional i when `binary`, or nothing:
\* anywhere when `optional` (m?), only at the end of the text otherwise ($)
memoryRegex == [units |-> {"E", "P", "T", "G", "M", "K"}, binary |-> TRUE, optional |-> FALSE]
cpuRegex == [units |-> {"m"}, binary |-> FALSE, optional |-> TRUE]

\* memoryConversions with the binary suffixes given their decimal values
memoryConversionsDecimalOnly ==
    [u \in {"E", "P", "T", "G", "M", "K", "Ei", "Pi", "Ti", "Gi", "Mi", "Ki"} |->
        FromBig(BigOf(
            CASE u \in {"E", "Ei"} -> <<1, 0, 0, 0, 0, 0, 0>>
              [] u \in {"P", "Pi"} -> <<1, 0, 0, 0, 0, 0>>
              [] u \in {"T", "Ti"} -> <<1, 0, 0, 0, 0>>
              [] u \in {"G", "Gi"} -> <<1, 0, 0, 0>>
              [] u \in {"M", "Mi"} -> <<1, 0, 0>>
              [] u \in {"K", "Ki"} -> <<1, 0>>))]

memoryConversions ==
    [u \in {"E", "P", "T", "G", "M", "K", "Ei", "Pi", "Ti", "Gi", "Mi", "Ki"} |->
        FromBig(BigOf(
            CASE u = "E" -> <<1, 0, 0, 0, 0, 0, 0>>
              [] u = "P" -> <<1, 0, 0, 0, 0, 0>>
              [] u = "T" -> <<1, 0, 0, 0, 0>>
              [] u = "G" -> <<1, 0, 0, 0>>
              [] u = "M" -> <<1, 0, 0>>
              [] u = "K" -> <<1, 0>>
              [] u = "Ei" -> <<1, 152, 921, 504, 606, 846, 976>>
              [] u = "Pi" -> <<1, 125, 899, 906, 842, 624>>
              [] u = "Ti" -> <<1, 99, 511, 627, 776>>
              [] u = "Gi" -> <<1, 73, 741, 824>>
              [] u = "Mi" -> <<1, 48, 576>>
              [] u = "Ki" -> <<1, 24>>))]

cpuConversions == [u \in {"m"} |-> Fin(1, <<1>>, 3)]

NilParser == [name |-> "nil"]
NewMemoryParser == [name |-> "memory", pattern |-> memoryRegex, conversions |-> memoryConversions]
NewCpuParser == [name |-> "cpu", pattern |-> cpuRegex, conversions |-> cpuConversions]

\* the end of group 1, \d*e?\d*, matched greedily from index i
Group1End(s, i) ==
    LET a == DigitRun(s, i)
        b == IF a <= Len(s) /\ s[a] = "e" THEN a + 1 ELSE a
    IN  DigitRun(s, b)

\* the length of group 2 matched at index j, -1 when it does not match there
Group2Len(pat, s, j) ==
    IF j <= Len(s) /\ s[j] \in pat.units
    THEN (IF pat.binary /\ j + 1 <= Len(s) /\ s[j + 1] = "i" THEN 2 ELSE 1)
    ELSE IF pat.optional \/ j = Len(s) + 1 THEN 0
    ELSE -1

MatchesAt(pat, s, i) == Group2Len(pat, s, Group1End(s, i)) >= 0

\* <<match, group 1, group 2>> of the match that starts at index first,
\* with group 1 ending before e1 and group 2 before e2
Submatch(s, first, e1, e2) ==
    <<SubSeq(s, first, e2 - 1), SubSeq(s, first, e1 - 1), SubSeq(s, e1, e2 - 1)>>

SubmatchAt(pat, s, first, e1) == Submatch(s, first, e1, e1 + Group2Len(pat, s, e1))

LeftmostSubmatch(pat, s, first) == SubmatchAt(pat, s, first, Group1End(s, first))

SubmatchesFrom(pat, s, starts) ==
    IF starts = {} THEN <<>>
    ELSE <<LeftmostSubmatch(pat, s, CHOOSE i \in starts : \A j \in starts : i <= j)>>

\* regex.FindAllStringSubmatch(resource, -1): the leftmost match comes first;
\* of the matches only the first one is read by the caller
FindAllStringSubmatch(pat, s) ==
    SubmatchesFrom(pat, s, {i \in 1..(Len(s) + 1) : MatchesAt(pat, s, i)})

\* lines 186-198: num is what ParseFloat made of group 1, unit is group 2
convertNumber(rp, groups, num, unit) ==
    IF num.err # "nil" THEN [val |-> Zero, err |-> num.err]
    ELSE IF Len(groups) = 3 /\ groups[3] # <<>>
         THEN (IF unit \in DOMAIN rp.conversions
               THEN [val |-> FMul(num.val, rp.conversions[unit]), err |-> "nil"]
               ELSE [val |-> Zero, err |-> "pattern"])
    ELSE [val |-> num.val, err |-> "nil"]

\* lines 180-198: matches[0] of an empty result is an index out of range
convertMatches(rp, matches) ==
    IF matches = <<>> THEN [val |-> Zero, err |-> "panic"]
    ELSE IF Len(matches[1]) < 2 THEN [val |-> Zero, err |-> "pattern"]
    ELSE convertNumber(rp, matches[1], ParseFloat(matches[1][2]), Text(matches[1][3]))

convertResource(rp, resource) ==
    convertMatches(rp, FindAllStringSubmatch(rp.pattern, resource))

\* the parser object a call uses: the global one, built on first use
MemoryParserOf(global) == IF global = NilParser THEN NewMemoryParser ELSE global
CpuParserOf(global) == IF global = NilParser THEN NewCpuParser ELSE global

MemoryToNumber(memory) == convertResource(MemoryParserOf(memoryParser), memory)
CpuToNumber(cpu) == convertResource(CpuParserOf(cpuParser), cpu)

(***************************************************************************)
(* Go values of type interface{} holding a JSON-like document.             *)
(***************************************************************************)
\* a value is <<dynamic type, payload>>; TypeOf is compared before the payload
Nil == <<"nil">>
Str(s) == <<"string", s>>
IntVal(n) == <<"int", n>>
Float64(n) == <<"float64", n>>
Bool(b) == <<"bool", b>>
Map(f) == <<"map", f>>
TypeOf(x) == x[1]
StringOf(x) == x[2]
BoolOf(x) == x[2]
NumberOf(x) == x[2]
Entries(x) == x[2]

\* m[k] on a map[string]interface{}: the value and the ok of the comma-ok form
HasKey(m, k) == k \in DOMAIN Entries(m)
Index(m, k) == IF k \in DOMAIN Entries(m) THEN Entries(m)[k] ELSE Nil

\* json.Marshal followed by json.Unmarshal into a map[string]interface{}:
\* every number comes back as a float64
RECURSIVE JsonRoundTrip(_)
JsonRoundTrip(x) ==
    IF TypeOf(x) = "map" THEN Map([k \in DOMAIN Entries(x) |-> JsonRoundTrip(Entries(x)[k])])
    ELSE IF TypeOf(x) = "int" THEN Float64(NumberOf(x))
    ELSE x

\* m[p1].(map[string]interface{})[p2]...[pn] in the comma-ok form: the type
\* assertions are the one-result form and panic on anything but a map
RECURSIVE Lookup(_, _)
Lookup(m, path) ==
    LET x == Index(m, Head(path))
    IN  IF Len(path) = 1 THEN [panic |-> FALSE, ok |-> HasKey(m, Head(path)), val |-> x]
        ELSE IF TypeOf(x) # "map" THEN [panic |-> TRUE, ok |-> FALSE, val |-> Nil]
        ELSE Lookup(x, Tail(path))

\* m[p1].(map[string]interface{})...[pn].(map[string]interface{}) in the
\* comma-ok form: only the last assertion is the two-result one
LookupMap(m, path) ==
    LET r == Lookup(m, path)
    IN  IF r.panic THEN r
        ELSE IF TypeOf(r.val) = "map" THEN [panic |-> FALSE, ok |-> TRUE, val |-> r.val]
        ELSE [panic |-> FALSE, ok |-> FALSE, val |-> Nil]

NoError == "<nil>"
Return(ok, err) == [kind |-> "return", ok |-> ok, err |-> err]
Panics == [kind |-> "panic", ok |-> FALSE, err |-> "panic"]
NotCalled == [kind |-> "none", ok |-> FALSE, err |-> NoError]

\* the least index at which flags holds, 0 when there is none
FirstIndex(flags) ==
    IF \E i \in DOMAIN flags : flags[i]
    THEN CHOOSE i \in DOMAIN flags : flags[i] /\ \A j \in 1..(i - 1) : ~flags[j]
    ELSE 0

(***************************************************************************)
(* The limit/request check: inline in DeploymentTemplateValidate and as    *)
(* util.Autoscale.                                                         *)
(***************************************************************************)
\* the eight look-ups, in the order of the code, with their errors
InlineFields == <<
    [path |-> <<"resources", "limits", "cpu">>, msg |-> "CPU limit is required"],
    [path |-> <<"resources", "limits", "memory">>, msg |-> "Memory limit is required"],
    [path |-> <<"resources", "requests", "cpu">>, msg |-> "CPU requests is required"],
    [path |-> <<"resources", "requests", "memory">>, msg |-> "Memory requests is required"],
    [path |-> <<"envoyproxy", "resources", "limits", "cpu">>, msg |-> "Envoproxy CPU limit is required"],
    [path |-> <<"envoyproxy", "resources", "limits", "memory">>, msg |-> "Envoproxy Memory limit is required"],
    [path |-> <<"envoyproxy", "resources", "requests", "cpu">>, msg |-> "Envoproxy CPU requests is required"],
    [path |-> <<"envoyproxy", "resources", "requests", "memory">>, msg |-> "Envoproxy memory requests is required"] >>

\* the four containers util.Autoscale fetches first
AutoscaleSections == <<
    [path |-> <<"resources", "limits">>, msg |-> "limit is required"],
    [path |-> <<"resources", "requests">>, msg |-> "Request is required"],
    [path |-> <<"envoyproxy", "resources", "limits">>, msg |-> "envoproxyLimit is required"],
    [path |-> <<"envoyproxy", "resources", "requests">>, msg |-> "envoproxyMemory is required"] >>

\* the conversions and the comparison on the eight values found, in the order
\* cpu limit, memory limit, cpu request, memory request of the primary
\* block and then of the sidecar; x.(string) panics on anything but a string
CompareNumbers(num) ==
    IF \E pair \in {<<5, 7>>, <<6, 8>>, <<1, 3>>, <<2, 4>>} : FLess(num[pair[1]], num[pair[2]])
    THEN Return(FALSE, "requests is greater than limits")
    ELSE Return(TRUE, NoError)

\* CompareQuantities returning the first parse error instead of dropping it
CompareQuantitiesPropagating(vals) ==
    IF \E i \in 1..8 : TypeOf(vals[i]) # "string" THEN Panics
    ELSE IF \E i \in 1..8 :
                (IF i % 2 = 1 THEN CpuToNumber(StringOf(vals[i]))
                 ELSE MemoryToNumber(StringOf(vals[i]))).err # "nil"
         THEN Return(FALSE, "parse error")
    ELSE CompareNumbers([i \in 1..8 |->
            (IF i % 2 = 1 THEN CpuToNumber(StringOf(vals[i]))
             ELSE MemoryToNumber(StringOf(vals[i]))).val])

CompareQuantities(vals) ==
    IF \E i \in 1..8 : TypeOf(vals[i]) # "string" THEN Panics
    ELSE CompareNumbers([i \in 1..8 |->
            (IF i % 2 = 1 THEN CpuToNumber(StringOf(vals[i]))
             ELSE MemoryToNumber(StringOf(vals[i]))).val])

\* the body of `if ok && autoscaleEnabled.(bool)` in DeploymentTemplateValidate
InlineCheck(dat) ==
    LET found == [i \in 1..8 |-> Lookup(dat, InlineFields[i].path)]
        bad == FirstIndex([i \in 1..8 |-> found[i].panic \/ ~found[i].ok])
    IN  IF bad # 0
        THEN (IF found[bad].panic THEN Panics ELSE Return(FALSE, InlineFields[bad].msg))
        ELSE CompareQuantities([i \in 1..8 |-> found[i].val])

\* Autoscale reporting an absent field under the name of its section
AutoscaleSectionMessages(dat) ==
    LET sect == [i \in 1..4 |-> LookupMap(dat, AutoscaleSections[i].path)]
        badSect == FirstIndex([i \in 1..4 |-> sect[i].panic \/ ~sect[i].ok])
        key == [i \in 1..8 |-> IF i % 2 = 1 THEN "cpu" ELSE "memory"]
        found == [i \in 1..8 |-> Lookup(sect[(i + 1) \div 2].val, <<key[i]>>)]
        bad == FirstIndex([i \in 1..8 |-> ~found[i].ok])
    IN  IF badSect # 0
        THEN (IF sect[badSect].panic THEN Panics
              ELSE Return(FALSE, AutoscaleSections[badSect].msg))
        ELSE IF bad # 0 THEN Return(FALSE, AutoscaleSections[(bad + 1) \div 2].msg)
        ELSE CompareQuantities([i \in 1..8 |-> found[i].val])

Autoscale(dat) ==
    LET sect == [i \in 1..4 |-> LookupMap(dat, AutoscaleSections[i].path)]
        badSect == FirstIndex([i \in 1..4 |-> sect[i].panic \/ ~sect[i].ok])
        key == [i \in 1..8 |-> IF i % 2 = 1 THEN "cpu" ELSE "memory"]
        found == [i \in 1..8 |-> Lookup(sect[(i + 1) \div 2].val, <<key[i]>>)]
        bad == FirstIndex([i \in 1..8 |-> ~found[i].ok])
    IN  IF badSect # 0
        THEN (IF sect[badSect].panic THEN Panics
              ELSE Return(FALSE, AutoscaleSections[badSect].msg))
        ELSE IF bad # 0 THEN Return(FALSE, InlineFields[bad].msg)
        ELSE CompareQuantities([i \in 1..8 |-> found[i].val])

(***************************************************************************)
(* DeploymentTemplateValidate (src/unnamed/part_000).                      *)
(***************************************************************************)
\* ^([0-9.]+)m$ : digits and dots, at least one, then m, the whole string
CpuUnitChecker(s) ==
    /\ Len(s) >= 2
    /\ s[Len(s)] = "m"
    /\ \A i \in 1..(Len(s) - 1) : IsDigit(s[i]) \/ s[i] = "."

\* NoCpuUnitChecker with the pattern ^([0-9]+)$
NoCpuUnitCheckerDigitsOnly(s) ==
    /\ Len(s) >= 1
    /\ \A i \in 1..Len(s) : IsDigit(s[i])

\* ^([0-9.]+)$
NoCpuUnitChecker(s) ==
    /\ Len(s) >= 1
    /\ \A i \in 1..Len(s) : IsDigit(s[i]) \/ s[i] = "."

\* UnitChecker with the pattern [0-9]+<unit>$, without ^
UnitCheckerUnanchored(unit, s) ==
    /\ Len(s) >= 3
    /\ s[Len(s) - 1] \o s[Len(s)] = unit
    /\ IsDigit(s[Len(s) - 2])

\* ^[0-9]+<unit>$ for a unit of two letters: MiChecker, GiChecker, TiChecker,
\* PiChecker, KiChecker
UnitChecker(unit, s) ==
    /\ Len(s) >= 3
    /\ s[Len(s) - 1] \o s[Len(s)] = unit
    /\ \A i \in 1..(Len(s) - 2) : IsDigit(s[i])

CpuCheckerIsFormat(in) ==
    IF TypeOf(in) # "string" THEN TRUE
    ELSE IF CpuUnitChecker(StringOf(in)) THEN TRUE
    ELSE IF NoCpuUnitChecker(StringOf(in)) THEN TRUE
    ELSE FALSE

MemoryCheckerIsFormat(in) ==
    IF TypeOf(in) # "string" THEN TRUE
    ELSE IF UnitChecker("Mi", StringOf(in)) THEN TRUE
    ELSE IF UnitChecker("Gi", StringOf(in)) THEN TRUE
    ELSE IF UnitChecker("Ti", StringOf(in)) THEN TRUE
    ELSE IF UnitChecker("Pi", StringOf(in)) THEN TRUE
    ELSE IF UnitChecker("Ki", StringOf(in)) THEN TRUE
    ELSE FALSE

memoryPattern == "\"100Mi\" or \"1Gi\" or \"1Ti\""
cpuPattern == "\"50m\" or \"0.05\""

\* Diagnostic with the memory text used for both formats
DiagnosticOnePattern(e) ==
    IF e.format = "cpu" THEN e.field \o ": Format should be like " \o memoryPattern \o "\n"
    ELSE IF e.format = "memory" THEN e.field \o ": Format should be like " \o memoryPattern \o "\n"
    ELSE e.string \o "\n"

\* one pass of the loop over result.Errors(); an engine error e is
\* [field |-> err.Field(), format |-> err.Details()["format"], string |-> err.String()]
Diagnostic(e) ==
    IF e.format = "cpu" THEN e.field \o ": Format should be like " \o cpuPattern \o "\n"
    ELSE IF e.format = "memory" THEN e.field \o ": Format should be like " \o memoryPattern \o "\n"
    ELSE e.string \o "\n"

RECURSIVE stringerror(_)
stringerror(errs) ==
    IF errs = <<>> THEN ""
    ELSE stringerror(SubSeq(errs, 1, Len(errs) - 1)) \o Diagnostic(errs[Len(errs)])

\* ValidBranch with `if ok` in place of `if ok && autoscaleEnabled.(bool)`
ValidBranchIgnoringFlag(dat) ==
    LET autoscaleEnabled == Lookup(dat, <<"autoscaling", "enabled">>)
    IN  IF autoscaleEnabled.panic THEN Panics
        ELSE IF ~autoscaleEnabled.ok THEN Return(TRUE, NoError)
        ELSE InlineCheck(dat)

\* the branch taken when result.Valid()
ValidBranch(dat) ==
    LET autoscaleEnabled == Lookup(dat, <<"autoscaling", "enabled">>)
    IN  IF autoscaleEnabled.panic THEN Panics
        ELSE IF ~autoscaleEnabled.ok THEN Return(TRUE, NoError)
        ELSE IF TypeOf(autoscaleEnabled.val) # "bool" THEN Panics
        ELSE IF BoolOf(autoscaleEnabled.val) THEN InlineCheck(dat)
        ELSE Return(TRUE, NoError)

\* DeploymentTemplateValidate running the limit/request check before it looks
\* at the verdict of the schema engine
DeploymentTemplateValidateCheckFirst(doc) ==
    IF ~schemaExists THEN Return(TRUE, NoError)
    ELSE IF engineFails THEN Return(FALSE, "gojsonschema error")
    ELSE IF ValidBranch(JsonRoundTrip(doc)) # Return(TRUE, NoError)
         THEN ValidBranch(JsonRoundTrip(doc))
    ELSE IF engineErrors = <<>> THEN Return(TRUE, NoError)
    ELSE Return(FALSE, stringerror(engineErrors))

\* DeploymentTemplateValidate without the os.Stat test around its body
DeploymentTemplateValidateWithoutStat(doc) ==
    IF engineFails THEN Return(FALSE, "gojsonschema error")
    ELSE IF engineErrors = <<>> THEN ValidBranch(JsonRoundTrip(doc))
    ELSE Return(FALSE, stringerror(engineErrors))

\* json.Marshal does not fail on a JSON-like document; an error of
\* gojsonschema.Validate is returned as it is
DeploymentTemplateValidate(doc) ==
    IF ~schemaExists THEN Return(TRUE, NoError)
    ELSE IF engineFails THEN Return(FALSE, "gojsonschema error")
    ELSE IF engineErrors = <<>> THEN ValidBranch(JsonRoundTrip(doc))
    ELSE Return(FALSE, stringerror(engineErrors))

\* whether the inline check is entered, and the values it converts
InlineEntered(dat) ==
    LET autoscaleEnabled == Lookup(dat, <<"autoscaling", "enabled">>)
    IN  /\ schemaExists /\ ~engineFails /\ engineErrors = <<>>
        /\ ~autoscaleEnabled.panic /\ autoscaleEnabled.ok
        /\ TypeOf(autoscaleEnabled.val) = "bool" /\ BoolOf(autoscaleEnabled.val)

InlineValues(dat) ==
    LET found == [i \in 1..8 |-> Lookup(dat, InlineFields[i].path)]
    IN  IF \A i \in 1..8 : ~found[i].panic /\ found[i].ok
        THEN [i \in 1..8 |-> found[i].val] ELSE <<>>

AutoscaleValues(dat) ==
    LET sect == [i \in 1..4 |-> LookupMap(dat, AutoscaleSections[i].path)]
        key == [i \in 1..8 |-> IF i % 2 = 1 THEN "cpu" ELSE "memory"]
    IN  IF /\ \A i \in 1..4 : ~sect[i].panic /\ sect[i].ok
           /\ \A i \in 1..8 : HasKey(sect[(i + 1) \div 2].val, key[i])
        THEN [i \in 1..8 |-> Index(sect[(i + 1) \div 2].val, key[i])] ELSE <<>>

\* the conversions run in the order cpu, memory, ...: the first one that
\* meets a value that is no string panics, the ones before it have run
UsesCpuParser(vals) == vals # <<>> /\ TypeOf(vals[1]) = "string"
UsesMemoryParser(vals) == vals # <<>> /\ TypeOf(vals[1]) = "string" /\ TypeOf(vals[2]) = "string"

DeploymentTemplateValidateSteps(doc) ==
    <<"os.Stat">>
    \o (IF schemaExists
        THEN <<"FormatCheckers.Add cpu", "FormatCheckers.Add memory", "gojsonschema.Validate">>
        ELSE <<>>)
    \o (IF InlineEntered(JsonRoundTrip(doc)) THEN <<"limit/request check">> ELSE <<>>)

(***************************************************************************)
(* The callers: a caller prepares a document and the schema store in at    *)
(* most MaxSetup steps from a well-formed template, then makes one call.   *)
(***************************************************************************)
MaxSetup == 2
MaxLen == 4

CpuStrings == {<<"1">>, <<"0", ".", "5">>, <<"0", ".", "9">>, <<"5", "0", "0", "m">>, <<"x">>}
MemoryStrings == {<<"1", "G", "i">>, <<"2", "G", "i">>, <<"x">>}

Block ==
    Map([s \in {"limits", "requests"} |->
        Map([r \in {"cpu", "memory"} |->
            IF r = "cpu" THEN Str(<<"1">>) ELSE Str(<<"1", "G", "i">>)])])

BaseDocument ==
    Map([k \in {"resources", "envoyproxy", "autoscaling"} |->
        CASE k = "resources" -> Block
          [] k = "envoyproxy" -> Map([r \in {"resources"} |-> Block])
          [] k = "autoscaling" -> Map([e \in {"enabled"} |-> Bool(TRUE)])])

LeafPaths == {InlineFields[i].path : i \in 1..8}
SectionPaths == {AutoscaleSections[i].path : i \in 1..4}

LeafValues(path) ==
    IF path[Len(path)] = "cpu"
    THEN {Str(s) : s \in CpuStrings} \cup {IntVal(1)}
    ELSE {Str(s) : s \in MemoryStrings} \cup {IntVal(1)}

Edits ==
    UNION {{<<path, v>> : v \in LeafValues(path)} : path \in LeafPaths} \cup
    {<<<<"autoscaling", "enabled">>, v>> : v \in {Bool(FALSE), Str(<<"t", "r", "u", "e">>)}}

DropPaths ==
    LeafPaths \cup SectionPaths \cup
    {<<"resources">>, <<"envoyproxy", "resources">>, <<"envoyproxy">>,
     <<"autoscaling">>, <<"autoscaling", "enabled">>}

RECURSIVE CanSet(_, _)
CanSet(x, path) ==
    /\ TypeOf(x) = "map"
    /\ Len(path) > 1 => HasKey(x, Head(path)) /\ CanSet(Entries(x)[Head(path)], Tail(path))

RECURSIVE SetAt(_, _, _)
SetAt(x, path, v) ==
    IF Len(path) = 1
    THEN Map([k \in DOMAIN Entries(x) \cup {Head(path)} |-> IF k = Head(path) THEN v ELSE Entries(x)[k]])
    ELSE Map([k \in DOMAIN Entries(x) |->
            IF k = Head(path) THEN SetAt(Entries(x)[k], Tail(path), v) ELSE Entries(x)[k]])

RECURSIVE DropAt(_, _)
DropAt(x, path) ==
    IF Len(path) = 1
    THEN Map([k \in DOMAIN Entries(x) \ {Head(path)} |-> Entries(x)[k]])
    ELSE Map([k \in DOMAIN Entries(x) |->
            IF k = Head(path) THEN DropAt(Entries(x)[k], Tail(path)) ELSE Entries(x)[k]])

\* what the schema engine may report about a document
EngineErrorKinds == {
    [field |-> "resources.limits.cpu", format |-> "cpu",
     string |-> "resources.limits.cpu: Does not match format 'cpu'"],
    [field |-> "resources.limits.memory", format |-> "memory",
     string |-> "resources.limits.memory: Does not match format 'memory'"],
    [field |-> "(root)", format |-> "<nil>",
     string |-> "(root): autoscaling is required"] }

\* the strings handed to the parser: a literal between an optional junk
\* character and an optional unit or junk, MaxLen characters at most
LitAlphabet == {"0", "1", "5", ".", "e", "E", ",", "-"}
Prefixes == {<<>>, <<"x">>}
Units == {<<>>, <<"m">>, <<"x">>, <<"m", "x">>, <<"M", "i", "x">>,
          <<"K">>, <<"M">>, <<"G">>, <<"T">>, <<"P">>, <<"E">>,
          <<"K", "i">>, <<"M", "i">>, <<"G", "i">>, <<"T", "i">>, <<"P", "i">>, <<"E", "i">>}

\* longer strings the parser is handed as well
Samples == {<<"1", ",", "0", "0", "0">>, <<"1", ",", "0", "0", "0", "m">>,
            <<"1", ",", "0", "0", "0", "M", "i">>, <<"1", "0", "0", "M", "i">>,
            <<"0", ".", "0", "5">>, <<"1", "2", "8", "M", "i">>}

Globals ==
    /\ memoryParser = NilParser
    /\ cpuParser = NilParser
    /\ FormatCheckers = {}

Init ==
    /\ Globals
    /\ templatejson = BaseDocument
    /\ schemaExists = TRUE
    /\ engineFails = FALSE
    /\ engineErrors = <<>>
    /\ budget = MaxSetup
    /\ arg = <<>>
    /\ input = Nil
    /\ pc = "setup"
    /\ callee = "none"
    /\ steps = <<>>
    /\ ret = NotCalled

Prepare ==
    /\ pc = "setup"
    /\ budget > 0
    /\ budget' = budget - 1
    /\ UNCHANGED <<memoryParser, cpuParser, FormatCheckers, arg, input, pc, callee, steps, ret>>

\* the caller puts a value into the document
SetValue ==
    /\ Prepare
    /\ \E e \in Edits :
        /\ CanSet(templatejson, e[1])
        /\ templatejson' = SetAt(templatejson, e[1], e[2])
        /\ templatejson' # templatejson
    /\ UNCHANGED <<schemaExists, engineFails, engineErrors>>

\* the caller leaves a key out of the document
DropKey ==
    /\ Prepare
    /\ \E path \in DropPaths :
        /\ CanSet(templatejson, path)
        /\ Lookup(templatejson, path).ok
        /\ templatejson' = DropAt(templatejson, path)
    /\ UNCHANGED <<schemaExists, engineFails, engineErrors>>

\* there is no schema/<schemafile>.json
RemoveSchema ==
    /\ Prepare
    /\ schemaExists
    /\ schemaExists' = FALSE
    /\ UNCHANGED <<templatejson, engineFails, engineErrors>>

\* the schema engine will fail on the schema or the document
BreakEngine ==
    /\ Prepare
    /\ ~engineFails
    /\ engineFails' = TRUE
    /\ UNCHANGED <<templatejson, schemaExists, engineErrors>>

\* the schema rejects the document with one more error
RejectDocument ==
    /\ Prepare
    /\ \E e \in EngineErrorKinds : engineErrors' = Append(engineErrors, e)
    /\ UNCHANGED <<templatejson, schemaExists, engineFails>>

CallDeploymentTemplateValidate ==
    /\ pc = "setup"
    /\ LET dat == JsonRoundTrip(templatejson)
           vals == IF InlineEntered(dat) THEN InlineValues(dat) ELSE <<>>
       IN  /\ ret' = DeploymentTemplateValidate(templatejson)
           /\ steps' = DeploymentTemplateValidateSteps(templatejson)
           /\ FormatCheckers' = IF schemaExists THEN FormatCheckers \cup {"cpu", "memory"}
                                ELSE FormatCheckers
           /\ cpuParser' = IF UsesCpuParser(vals) THEN CpuParserOf(cpuParser) ELSE cpuParser
           /\ memoryParser' = IF UsesMemoryParser(vals) THEN MemoryParserOf(memoryParser)
                              ELSE memoryParser
    /\ callee' = "DeploymentTemplateValidate"
    /\ pc' = "done"
    /\ UNCHANGED <<templatejson, schemaExists, engineFails, engineErrors, budget, arg, input>>

CallAutoscale ==
    /\ pc = "setup"
    /\ LET vals == AutoscaleValues(templatejson)
       IN  /\ ret' = Autoscale(templatejson)
           /\ cpuParser' = IF UsesCpuParser(vals) THEN CpuParserOf(cpuParser) ELSE cpuParser
           /\ memoryParser' = IF UsesMemoryParser(vals) THEN MemoryParserOf(memoryParser)
                              ELSE memoryParser
    /\ steps' = <<"limit/request check">>
    /\ callee' = "Autoscale"
    /\ pc' = "done"
    /\ UNCHANGED <<FormatCheckers, templatejson, schemaExists, engineFails, engineErrors,
                   budget, arg, input>>

Next ==
    \/ SetValue
    \/ DropKey
    \/ RemoveSchema
    \/ BreakEngine
    \/ RejectDocument
    \/ CallDeploymentTemplateValidate
    \/ CallAutoscale

Spec == Init /\ [][Next]_vars

(***************************************************************************)
(* The quantity parser called on its own.                                  *)
(***************************************************************************)
\* the caller's string
ChooseArg ==
    \/ \E p \in Prefixes, u \in Units :
        /\ Len(p) + Len(u) <= MaxLen
        /\ \E k \in 0..(MaxLen - Len(p) - Len(u)) :
            \E l \in [1..k -> LitAlphabet] : arg = p \o l \o u
    \/ arg \in Samples

ParserInit ==
    /\ Globals
    /\ templatejson = BaseDocument
    /\ schemaExists = TRUE
    /\ engineFails = FALSE
    /\ engineErrors = <<>>
    /\ budget = 0
    /\ ChooseArg
    /\ input = Nil
    /\ pc = "setup"
    /\ callee = "none"
    /\ steps = <<>>
    /\ ret = [val |-> Zero, err |-> "none"]

ParserCall(name) ==
    /\ pc = "setup"
    /\ callee' = name
    /\ pc' = "done"
    /\ UNCHANGED <<FormatCheckers, templatejson, schemaExists, engineFails, engineErrors,
                   budget, arg, input, steps>>

CallMemoryToNumber ==
    /\ ParserCall("MemoryToNumber")
    /\ ret' = MemoryToNumber(arg)
    /\ memoryParser' = MemoryParserOf(memoryParser)
    /\ UNCHANGED cpuParser

CallCpuToNumber ==
    /\ ParserCall("CpuToNumber")
    /\ ret' = CpuToNumber(arg)
    /\ cpuParser' = CpuParserOf(cpuParser)
    /\ UNCHANGED memoryParser

CallParseFloat ==
    /\ ParserCall("ParseFloat")
    /\ ret' = ParseFloat(arg)
    /\ UNCHANGED <<memoryParser, cpuParser>>

ParserNext ==
    \/ CallMemoryToNumber
    \/ CallCpuToNumber
    \/ CallParseFloat

ParserSpec == ParserInit /\ [][ParserNext]_vars

(***************************************************************************)
(* The format predicates called on their own, as the schema engine calls   *)
(* them on the value of a field.                                           *)
(***************************************************************************)
NonStrings == {Nil, Float64(1), Bool(TRUE), Map([k \in {"cpu"} |-> Str(<<"1">>)])}

FormatInit ==
    /\ Globals
    /\ templatejson = BaseDocument
    /\ schemaExists = TRUE
    /\ engineFails = FALSE
    /\ engineErrors = <<>>
    /\ budget = 0
    /\ \/ ChooseArg /\ input = Str(arg)
       \/ arg = <<>> /\ input \in NonStrings
    /\ pc = "setup"
    /\ callee = "none"
    /\ steps = <<>>
    /\ ret = [accepted |-> FALSE]

FormatCall(name) ==
    /\ pc = "setup"
    /\ callee' = name
    /\ pc' = "done"
    /\ UNCHANGED <<memoryParser, cpuParser, FormatCheckers, templatejson, schemaExists,
                   engineFails, engineErrors, budget, arg, input, steps>>

CallCpuCheckerIsFormat ==
    /\ FormatCall("CpuChecker.IsFormat")
    /\ ret' = [accepted |-> CpuCheckerIsFormat(input)]

CallMemoryCheckerIsFormat ==
    /\ FormatCall("MemoryChecker.IsFormat")
    /\ ret' = [accepted |-> MemoryCheckerIsFormat(input)]

FormatNext ==
    \/ CallCpuCheckerIsFormat
    \/ CallMemoryCheckerIsFormat

FormatSpec == FormatInit /\ [][FormatNext]_vars

(***************************************************************************)
(* Concurrent calls of DeploymentTemplateValidate, one goroutine each, on  *)
(* a well-formed document the schema accepts.  A step is one access to     *)
(* shared state: the registry of gojsonschema, which has a lock of its     *)
(* own, and the parsers of package util, which have none.                  *)
(***************************************************************************)
NumCalls == 2
Calls == 1..NumCalls

At(label, k) == [at |-> label, k |-> k]
Access(g, op, var) == steps \cup {<<g, op, var>>}

\* the global that conversion k of the check uses: CpuToNumber for the odd
\* ones, MemoryToNumber for the even ones
ParserVar(k) == IF k % 2 = 1 THEN "cpuParser" ELSE "memoryParser"
ParserValue(k) == IF k % 2 = 1 THEN cpuParser ELSE memoryParser
WrittenByAnother(g, var) == \E h \in Calls \ {g} : <<h, "write", var>> \in steps

ConcurrentInit ==
    /\ Globals
    /\ templatejson \in {BaseDocument,
                         SetAt(BaseDocument, <<"autoscaling", "enabled">>, Bool(FALSE))}
    /\ schemaExists \in BOOLEAN
    /\ engineFails = FALSE
    /\ engineErrors = <<>>
    /\ budget = 0
    /\ arg = <<>>
    /\ input = Nil
    /\ pc = [g \in Calls |-> At("os.Stat", 0)]
    /\ callee = "DeploymentTemplateValidate"
    /\ steps = {}
    /\ ret = [g \in Calls |-> NotCalled]

Fixed == UNCHANGED <<templatejson, schemaExists, engineFails, engineErrors, budget, arg,
                     input, callee>>

\* line 75
Stat(g) ==
    /\ pc[g] = At("os.Stat", 0)
    /\ IF schemaExists
       THEN pc' = [pc EXCEPT ![g] = At("Add cpu", 0)] /\ UNCHANGED ret
       ELSE /\ pc' = [pc EXCEPT ![g] = At("done", 0)]
            /\ ret' = [ret EXCEPT ![g] = Return(TRUE, NoError)]
    /\ UNCHANGED <<memoryParser, cpuParser, FormatCheckers, steps>>
    /\ Fixed

\* line 76
AddCpu(g) ==
    /\ pc[g] = At("Add cpu", 0)
    /\ FormatCheckers' = FormatCheckers \cup {"cpu"}
    /\ steps' = Access(g, "write", "FormatCheckers")
    /\ pc' = [pc EXCEPT ![g] = At("Add memory", 0)]
    /\ UNCHANGED <<memoryParser, cpuParser, ret>>
    /\ Fixed

\* line 77
AddMemory(g) ==
    /\ pc[g] = At("Add memory", 0)
    /\ FormatCheckers' = FormatCheckers \cup {"memory"}
    /\ steps' = Access(g, "write", "FormatCheckers")
    /\ pc' = [pc EXCEPT ![g] = At("Validate", 0)]
    /\ UNCHANGED <<memoryParser, cpuParser, ret>>
    /\ Fixed

\* lines 93-107: the engine reads the registry and accepts the document
Validate(g) ==
    /\ pc[g] = At("Validate", 0)
    /\ steps' = Access(g, "read", "FormatCheckers")
    /\ IF InlineEntered(JsonRoundTrip(templatejson))
       THEN pc' = [pc EXCEPT ![g] = At("parser == nil", 1)] /\ UNCHANGED ret
       ELSE /\ pc' = [pc EXCEPT ![g] = At("done", 0)]
            /\ ret' = [ret EXCEPT ![g] = Return(TRUE, NoError)]
    /\ UNCHANGED <<memoryParser, cpuParser, FormatCheckers>>
    /\ Fixed

\* helper.go lines 137 and 163: `if memoryParser == nil`, `if cpuParser == nil`
CheckParser(g) ==
    /\ pc[g].at = "parser == nil"
    /\ steps' = Access(g, "read", ParserVar(pc[g].k))
    /\ pc' = [pc EXCEPT ![g] = At(IF ParserValue(pc[g].k) = NilParser
                                   THEN "parser = &resourceParser"
                                   ELSE "convertResource", pc[g].k)]
    /\ UNCHANGED <<memoryParser, cpuParser, FormatCheckers, ret>>
    /\ Fixed

\* helper.go lines 140 and 166: the assignment to the global
InitParser(g) ==
    /\ pc[g].at = "parser = &resourceParser"
    /\ steps' = Access(g, "write", ParserVar(pc[g].k))
    /\ IF pc[g].k % 2 = 1
       THEN cpuParser' = NewCpuParser /\ UNCHANGED memoryParser
       ELSE memoryParser' = NewMemoryParser /\ UNCHANGED cpuParser
    /\ pc' = [pc EXCEPT ![g] = At("convertResource", pc[g].k)]
    /\ UNCHANGED <<FormatCheckers, ret>>
    /\ Fixed

\* helper.go lines 160 and 175: the global is read again and the parser it
\* points to is used.  A parser that another goroutine has stored without
\* synchronisation may be seen before its fields are: rp.regex is nil then and
\* the call panics
UseParser(g) ==
    /\ pc[g].at = "convertResource"
    /\ steps' = Access(g, "read", ParserVar(pc[g].k))
    /\ \/ /\ pc' = [pc EXCEPT ![g] = IF pc[g].k < 8 THEN At("parser == nil", pc[g].k + 1)
                                       ELSE At("compare", 0)]
          /\ UNCHANGED ret
       \/ /\ WrittenByAnother(g, ParserVar(pc[g].k))
          /\ pc' = [pc EXCEPT ![g] = At("done", 0)]
          /\ ret' = [ret EXCEPT ![g] = Panics]
    /\ UNCHANGED <<memoryParser, cpuParser, FormatCheckers>>
    /\ Fixed

\* lines 155-161
Compare(g) ==
    /\ pc[g] = At("compare", 0)
    /\ ret' = [ret EXCEPT ![g] = CompareQuantities(InlineValues(JsonRoundTrip(templatejson)))]
    /\ pc' = [pc EXCEPT ![g] = At("done", 0)]
    /\ UNCHANGED <<memoryParser, cpuParser, FormatCheckers, steps>>
    /\ Fixed

ConcurrentNext ==
    \E g \in Calls :
        \/ Stat(g)
        \/ AddCpu(g)
        \/ AddMemory(g)
        \/ Validate(g)
        \/ CheckParser(g)
        \/ InitParser(g)
        \/ UseParser(g)
        \/ Compare(g)

ConcurrentSpec == ConcurrentInit /\ [][ConcurrentNext]_vars

(***************************************************************************)
(* The quantities the specification gives to a string (section 4.1): a     *)
(* numeric literal, then at most one unit of the family.  Used only to     *)
(* state the properties below.                                             *)
(***************************************************************************)
AllDigits(s) == \A i \in 1..Len(s) : IsDigit(s[i])

\* an integer, a plain decimal, or one of them with e or E and a signed
\* integer exponent
IsLiteral(lit) ==
    LET ePos == IndexAny(lit, {"e", "E"})
        mant == IF ePos = 0 THEN lit ELSE SubSeq(lit, 1, ePos - 1)
        expo == IF ePos = 0 THEN <<>> ELSE SubSeq(lit, ePos + 1, Len(lit))
        edig == IF expo # <<>> /\ expo[1] \in {"+", "-"} THEN Tail(expo) ELSE expo
        dot == IndexAny(mant, {"."})
        ip == IF dot = 0 THEN mant ELSE SubSeq(mant, 1, dot - 1)
        fp == IF dot = 0 THEN <<"0">> ELSE SubSeq(mant, dot + 1, Len(mant))
    IN  /\ ip # <<>> /\ AllDigits(ip)
        /\ fp # <<>> /\ AllDigits(fp)
        /\ ePos # 0 => edig # <<>> /\ AllDigits(edig)

\* mantissa * 10^exponent of a literal
LiteralValue(lit) ==
    LET ePos == IndexAny(lit, {"e", "E"})
        mant == IF ePos = 0 THEN lit ELSE SubSeq(lit, 1, ePos - 1)
        expo == IF ePos = 0 THEN <<>> ELSE SubSeq(lit, ePos + 1, Len(lit))
        neg == expo # <<>> /\ expo[1] = "-"
        edig == IF expo # <<>> /\ expo[1] \in {"+", "-"} THEN Tail(expo) ELSE expo
        dot == IndexAny(mant, {"."})
        ip == IF dot = 0 THEN mant ELSE SubSeq(mant, 1, dot - 1)
        fp == IF dot = 0 THEN <<>> ELSE SubSeq(mant, dot + 1, Len(mant))
        e10 == (IF neg THEN 0 - NatOfDigits(edig) ELSE NatOfDigits(edig)) - Len(fp)
        m == BigOfDigits(ip \o fp)
    IN  IF e10 >= 0 THEN Fin(1, BigShift10(m, e10), 0) ELSE Fin(1, m, 0 - e10)

DecimalUnits == <<"K", "M", "G", "T", "P", "E">>
BinaryUnits == <<"Ki", "Mi", "Gi", "Ti", "Pi", "Ei">>

\* the multiplier of a unit: 1000^k, 1024^k, 0.001 for m
UnitFactor(family, unit) ==
    IF unit = "" THEN FromBig(<<1>>)
    ELSE IF family = "cpu" THEN Fin(1, <<1>>, 3)
    ELSE IF \E k \in 1..6 : DecimalUnits[k] = unit
         THEN FromBig(BigPow(<<0, 1>>, CHOOSE k \in 1..6 : DecimalUnits[k] = unit))
    ELSE FromBig(BigPow(<<24, 1>>, CHOOSE k \in 1..6 : BinaryUnits[k] = unit))

UnitsOf(family) ==
    IF family = "cpu" THEN {"m"}
    ELSE {DecimalUnits[k] : k \in 1..6} \cup {BinaryUnits[k] : k \in 1..6}

\* the unit a string ends with: the longest unit of the family that ends it
UnitOf(family, s) ==
    LET n == Len(s)
        two == IF n >= 2 THEN Text(SubSeq(s, n - 1, n)) ELSE ""
        one == IF n >= 1 THEN s[n] ELSE ""
    IN  IF two \in UnitsOf(family) THEN two
        ELSE IF one \in UnitsOf(family) THEN one
        ELSE ""

UnitLen(unit) == IF unit = "" THEN 0 ELSE IF unit \in {BinaryUnits[k] : k \in 1..6} THEN 2 ELSE 1
LiteralOf(family, s) == SubSeq(s, 1, Len(s) - UnitLen(UnitOf(family, s)))

Denotes(family, s) == IsLiteral(LiteralOf(family, s))
Quantity(family, s) ==
    FMul(LiteralValue(LiteralOf(family, s)), UnitFactor(family, UnitOf(family, s)))

(***************************************************************************)
(* The documents and calls the properties speak about.                     *)
(***************************************************************************)
Called(f) == pc = "done" /\ callee = f
SchemaValid == schemaExists /\ ~engineFails /\ engineErrors = <<>>

FlagOf(doc) == Lookup(doc, <<"autoscaling", "enabled">>)
HasFlag(doc, b) == ~FlagOf(doc).panic /\ FlagOf(doc).ok /\ FlagOf(doc).val = Bool(b)

\* the limit/request check has been run on a document with autoscaling enabled
CheckRan ==
    /\ pc = "done"
    /\ HasFlag(templatejson, TRUE)
    /\ \/ callee = "Autoscale"
       \/ callee = "DeploymentTemplateValidate" /\ SchemaValid

FieldNames == <<"CPU limit", "Memory limit", "CPU requests", "Memory requests",
                "Envoproxy CPU limit", "Envoproxy Memory limit",
                "Envoproxy CPU requests", "Envoproxy memory requests">>
FieldFamily == <<"cpu", "memory", "cpu", "memory", "cpu", "memory", "cpu", "memory">>
\* limit and request of the four pairs, as indexes into the eight fields
Pairs == {<<1, 3>>, <<2, 4>>, <<5, 7>>, <<6, 8>>}

Field(doc, i) == Lookup(doc, InlineFields[i].path)
Missing(doc, i) == Field(doc, i).panic \/ ~Field(doc, i).ok
EightStrings(doc) == \A i \in 1..8 : ~Missing(doc, i) /\ TypeOf(Field(doc, i).val) = "string"
Text8(doc, i) == StringOf(Field(doc, i).val)

LimitBelowRequest(doc, p) ==
    /\ Denotes(FieldFamily[p[1]], Text8(doc, p[1]))
    /\ Denotes(FieldFamily[p[2]], Text8(doc, p[2]))
    /\ FLess(Quantity(FieldFamily[p[1]], Text8(doc, p[1])),
             Quantity(FieldFamily[p[2]], Text8(doc, p[2])))

SameQuantity(doc, p) ==
    \/ Text8(doc, p[1]) = Text8(doc, p[2])
    \/ /\ Denotes(FieldFamily[p[1]], Text8(doc, p[1]))
       /\ Denotes(FieldFamily[p[2]], Text8(doc, p[2]))
       /\ Quantity(FieldFamily[p[1]], Text8(doc, p[1]))
            = Quantity(FieldFamily[p[2]], Text8(doc, p[2]))

(***************************************************************************)
(* Properties.                                                             *)
(***************************************************************************)
\* C1: with autoscaling enabled and all eight resource strings present, a
\* limit that denotes a smaller quantity than its request, in any of the four
\* pairs, makes the check return ok=false, "requests is greater than limits".
\* The code does not: it reads "0.5" and "0.9" as 0 (see C9).
C1_LimitBelowRequestRejected ==
    (/\ CheckRan
     /\ EightStrings(templatejson)
     /\ \E p \in Pairs : LimitBelowRequest(templatejson, p))
    => ret = Return(FALSE, "requests is greater than limits")

\* C2: with autoscaling enabled, a document in which one of the eight strings
\* is missing gets ok=false and "<Field> is required" for the first missing
\* one in the fixed order.  The code panics, or reports a section, when the
\* section that would hold the string is missing.
C2_FirstMissingReported ==
    (/\ CheckRan
     /\ \E i \in 1..8 : Missing(templatejson, i))
    => ret = Return(FALSE,
          FieldNames[FirstIndex([i \in 1..8 |-> Missing(templatejson, i)])] \o " is required")

\* C3: with autoscaling enabled and all eight strings present, limits that
\* equal their requests (the same string, or the same quantity) pass the
\* check.  The code fails limit "0.5" against request "500m" (see C9).
C3_BoundaryInclusive ==
    (/\ CheckRan
     /\ EightStrings(templatejson)
     /\ \A p \in Pairs : SameQuantity(templatejson, p))
    => ret = Return(TRUE, NoError)

\* C4: when autoscaling.enabled is false, DeploymentTemplateValidate returns
\* ok=true with no error for every document the schema accepts, whatever
\* resource fields are missing and whatever the limit/request values are, and
\* does not run the limit/request check.
C4_DisabledSkipsInlineCheck ==
    (/\ Called("DeploymentTemplateValidate")
     /\ SchemaValid
     /\ HasFlag(templatejson, FALSE))
    => /\ ret = Return(TRUE, NoError)
       /\ \A i \in 1..Len(steps) : steps[i] # "limit/request check"

\* a call of DeploymentTemplateValidate with autoscaling disabled on a
\* document that lacks one of the eight strings
C4_DisabledWithMissingField ==
    /\ Called("DeploymentTemplateValidate")
    /\ SchemaValid
    /\ HasFlag(templatejson, FALSE)
    /\ \E i \in 1..8 : Missing(templatejson, i)
    /\ ret = Return(TRUE, NoError)

\* C4 as stated: with autoscaling.enabled false, the limit/request check, in
\* util.Autoscale as in DeploymentTemplateValidate, returns ok=true with no
\* error for every document.  It is stated here of the calls that return,
\* which it fails already: util.Autoscale never reads the flag.
C4_DisabledAlwaysPasses ==
    (/\ pc = "done"
     /\ HasFlag(templatejson, FALSE)
     /\ \/ callee = "Autoscale"
        \/ callee = "DeploymentTemplateValidate" /\ SchemaValid
     /\ ret.kind = "return")
    => ret = Return(TRUE, NoError)

\* C5: for a document the schema accepts that has no autoscaling section, or
\* an autoscaling section without enabled, DeploymentTemplateValidate skips
\* the limit/request check and returns ok=true with no error.  The code
\* panics on a document without the section (see C8).
C5_FlagOptional ==
    (/\ Called("DeploymentTemplateValidate")
     /\ SchemaValid
     /\ \/ ~HasKey(templatejson, "autoscaling")
        \/ /\ TypeOf(Index(templatejson, "autoscaling")) = "map"
           /\ ~HasKey(Index(templatejson, "autoscaling"), "enabled"))
    => /\ ret = Return(TRUE, NoError)
       /\ \A i \in 1..Len(steps) : steps[i] # "limit/request check"

\* C6: when there is no schema of the given name, DeploymentTemplateValidate
\* returns ok=true with no error for every document, and does nothing after
\* the look-up: no format predicate is registered, the schema engine and the
\* limit/request check do not run, no parser is built.
C6_NoSchemaAcceptsAll ==
    (/\ Called("DeploymentTemplateValidate")
     /\ ~schemaExists)
    => /\ ret = Return(TRUE, NoError)
       /\ steps = <<"os.Stat">>
       /\ FormatCheckers = {}
       /\ cpuParser = NilParser
       /\ memoryParser = NilParser

\* a call without a schema on a document that would make the check panic
C6_NoSchemaBrokenDocument ==
    /\ Called("DeploymentTemplateValidate")
    /\ ~schemaExists
    /\ ~HasKey(templatejson, "autoscaling")
    /\ ret = Return(TRUE, NoError)

\* the text the specification gives for one engine error
Rendered(e) ==
    IF e.format = "cpu" THEN e.field \o ": Format should be like \"50m\" or \"0.05\""
    ELSE IF e.format = "memory"
         THEN e.field \o ": Format should be like \"100Mi\" or \"1Gi\" or \"1Ti\""
    ELSE e.string

\* the diagnostics in order with sep between them
RECURSIVE Separated(_, _)
Separated(errs, sep) ==
    IF errs = <<>> THEN ""
    ELSE IF Len(errs) = 1 THEN Rendered(errs[1])
    ELSE Rendered(Head(errs)) \o sep \o Separated(Tail(errs), sep)

\* the diagnostics in order with end after each of them
RECURSIVE Terminated(_, _)
Terminated(errs, end) ==
    IF errs = <<>> THEN ""
    ELSE Rendered(Head(errs)) \o end \o Terminated(Tail(errs), end)

SchemaInvalid == schemaExists /\ ~engineFails /\ engineErrors # <<>>

\* C7: when the schema engine reports the document invalid,
\* DeploymentTemplateValidate returns ok=false with one diagnostic per engine
\* error, in the engine's order, each followed by a newline (the text ends
\* with a newline); format cpu and memory get the friendly text, every other
\* error the engine's own message.
C7_DiagnosticsTerminated ==
    (/\ Called("DeploymentTemplateValidate")
     /\ SchemaInvalid)
    => ret = Return(FALSE, Terminated(engineErrors, "\n"))

\* a call on a document rejected with a cpu format error and then an error
\* of another kind
C7_TwoDiagnostics ==
    /\ Called("DeploymentTemplateValidate")
    /\ SchemaInvalid
    /\ Len(engineErrors) = 2
    /\ engineErrors[1].format = "cpu"
    /\ engineErrors[2].format = "<nil>"
    /\ ret.ok = FALSE

\* C7 as stated: the diagnostics are separated by newlines.
C7_DiagnosticsSeparated ==
    (/\ Called("DeploymentTemplateValidate")
     /\ SchemaInvalid)
    => ret = Return(FALSE, Separated(engineErrors, "\n"))

\* C8: every call of DeploymentTemplateValidate and of util.Autoscale on a
\* JSON-like document returns a (verdict, error) pair; none panics.  The code
\* panics on an absent section and on a leaf that is no string.
C8_EveryCallReturns ==
    pc = "done" => ret.kind = "return"

\* C9: CpuToNumber and MemoryToNumber give a numeric literal (an integer, a
\* plain decimal, or either with e or E and a signed integer exponent) its
\* mathematical value, without error.  The code reads "0.5" as 0.
C9_LiteralAtMathematicalValue ==
    (/\ pc = "done"
     /\ callee \in {"CpuToNumber", "MemoryToNumber"}
     /\ IsLiteral(arg))
    => ret = [val |-> LiteralValue(arg), err |-> "nil"]

\* a non-empty run of digits followed by at most one unit of the family
IntegerWithUnit(family, s) ==
    LiteralOf(family, s) # <<>> /\ AllDigits(LiteralOf(family, s))

ConverterOf(family) == IF family = "cpu" THEN "CpuToNumber" ELSE "MemoryToNumber"

\* C10: for an integer literal n, CpuToNumber(n m) = n * 0.001 and
\* CpuToNumber(n) = n; MemoryToNumber(n u) = n * 1000^k for u the k-th of
\* K M G T P E, n * 1024^k for the k-th of Ki Mi Gi Ti Pi Ei, and
\* MemoryToNumber(n) = n; all without error.
C10_IntegerTimesUnit ==
    \A family \in {"cpu", "memory"} :
        (/\ Called(ConverterOf(family))
         /\ IntegerWithUnit(family, arg))
        => ret = [val |-> FMul(FromBig(BigOfDigits(LiteralOf(family, arg))),
                               UnitFactor(family, UnitOf(family, arg))),
                  err |-> "nil"]

\* MemoryToNumber("1Gi") has returned 1073741824
C10_OneGi ==
    /\ Called("MemoryToNumber")
    /\ arg = <<"1", "G", "i">>
    /\ ret = [val |-> FromBig(BigOf(<<1, 73, 741, 824>>)), err |-> "nil"]

\* digits in groups separated by single commas, with at least one comma
CommaGrouped(lit) ==
    /\ \E i \in 1..Len(lit) : lit[i] = ","
    /\ \A i \in 1..Len(lit) : lit[i] = "," \/ IsDigit(lit[i])
    /\ lit[1] # "," /\ lit[Len(lit)] # ","
    /\ \A i \in 1..(Len(lit) - 1) : ~(lit[i] = "," /\ lit[i + 1] = ",")

\* C11: for a comma-grouped literal, with or without a unit, CpuToNumber and
\* MemoryToNumber return the value and the error status they return for the
\* literal with its commas removed.  The code stops reading "1,000" at the
\* comma: group 1 of the pattern has no comma.
C11_CommasTransparent ==
    \A family \in {"cpu", "memory"} :
        (/\ Called(ConverterOf(family))
         /\ CommaGrouped(LiteralOf(family, arg)))
        => ret = IF family = "cpu" THEN CpuToNumber(RemoveCommas(arg))
                 ELSE MemoryToNumber(RemoveCommas(arg))

\* the whole string is a literal ParseFloat can read, followed by at most one
\* unit of the family
WellFormed(family, s) ==
    \E n \in 0..2 :
        /\ n <= Len(s)
        /\ n > 0 => Text(SubSeq(s, Len(s) - n + 1, Len(s))) \in UnitsOf(family)
        /\ ParseFloat(SubSeq(s, 1, Len(s) - n)).err = "nil"

\* C12: CpuToNumber and MemoryToNumber return an error and the value 0 for
\* every string that is not, as a whole, a parseable literal followed by at
\* most one unit of the family.  The code parses a fragment: the patterns are
\* not anchored, so CpuToNumber("5x") is 5.
C12_GarbageRejected ==
    \A family \in {"cpu", "memory"} :
        (/\ Called(ConverterOf(family))
         /\ ~WellFormed(family, arg))
        => ret.err # "nil" /\ ret.val = Zero

\* a non-empty run of digits and dots, optionally followed by a single m
CpuFormatString(s) ==
    LET body == IF s # <<>> /\ s[Len(s)] = "m" THEN SubSeq(s, 1, Len(s) - 1) ELSE s
    IN  /\ body # <<>>
        /\ \A i \in 1..Len(body) :
            body[i] \in {"0", "1", "2", "3", "4", "5", "6", "7", "8", "9", "."}

\* C13: CpuChecker.IsFormat returns true for every input that is no string,
\* and for a string exactly when the whole of it is a non-empty run of digits
\* and dots, optionally followed by a single m.
C13_CpuFormat ==
    Called("CpuChecker.IsFormat")
    => ret.accepted = (TypeOf(input) # "string" \/ CpuFormatString(StringOf(input)))

\* CpuChecker.IsFormat has accepted "0.5m"
C13_DecimalMilli ==
    /\ Called("CpuChecker.IsFormat")
    /\ input = Str(<<"0", ".", "5", "m">>)
    /\ ret.accepted

\* a non-empty run of digits followed by one of Ki, Mi, Gi, Ti, Pi
MemoryFormatString(s) ==
    /\ Len(s) >= 3
    /\ Text(SubSeq(s, Len(s) - 1, Len(s))) \in {"Ki", "Mi", "Gi", "Ti", "Pi"}
    /\ AllDigits(SubSeq(s, 1, Len(s) - 2))

\* C14: MemoryChecker.IsFormat returns true for every input that is no
\* string, and for a string exactly when the whole of it is a non-empty run
\* of digits followed by one of Ki, Mi, Gi, Ti, Pi; unsuffixed numbers, K, M,
\* G, T, P, E, Ei and literals with a decimal point are rejected.
C14_MemoryFormat ==
    Called("MemoryChecker.IsFormat")
    => ret.accepted = (TypeOf(input) # "string" \/ MemoryFormatString(StringOf(input)))

\* MemoryChecker.IsFormat has rejected "1Ei"
C14_ExbiRejected ==
    /\ Called("MemoryChecker.IsFormat")
    /\ input = Str(<<"1", "E", "i">>)
    /\ ~ret.accepted

\* what the parser of its family makes of the i-th of the eight strings
Parsed(doc, i) ==
    IF FieldFamily[i] = "cpu" THEN CpuToNumber(Text8(doc, i))
    ELSE MemoryToNumber(Text8(doc, i))

Rejected(doc, i) == Parsed(doc, i).err # "nil"

\* the quantity the i-th string is compared as: 0 when it is rejected
ComparedAs(doc, i) == IF Rejected(doc, i) THEN Zero ELSE Parsed(doc, i).val

\* C15: with all eight strings present, a parser error is never reported: a
\* rejected string is compared as 0, so the check fails, with "requests is
\* greater than limits", exactly when some limit, taken as 0 if rejected, is
\* below its request, taken as 0 if rejected.
C15_ParseErrorsCountAsZero ==
    (/\ CheckRan
     /\ EightStrings(templatejson))
    => ret = IF \E p \in Pairs :
                    FLess(ComparedAs(templatejson, p[1]), ComparedAs(templatejson, p[2]))
             THEN Return(FALSE, "requests is greater than limits")
             ELSE Return(TRUE, NoError)

\* the check has failed a rejected cpu limit against a request above 0
C15_RejectedLimit ==
    /\ CheckRan
    /\ EightStrings(templatejson)
    /\ Rejected(templatejson, 1)
    /\ ~Rejected(templatejson, 3)
    /\ FLess(Zero, Parsed(templatejson, 3).val)
    /\ ret = Return(FALSE, "requests is greater than limits")

\* the errors of the limit/request check
CheckMessages ==
    {FieldNames[i] \o " is required" : i \in 1..8} \cup {"requests is greater than limits"}

\* C16: in a call of DeploymentTemplateValidate with a schema, the cpu and
\* memory predicates are registered, then the schema engine is invoked, and
\* the limit/request check runs after that and only if the engine found the
\* document valid; if it found it invalid the result is the schema
\* diagnostic, never an error of the limit/request check.
C16_StepOrder ==
    (/\ Called("DeploymentTemplateValidate")
     /\ schemaExists)
    => /\ Len(steps) >= 4
       /\ SubSeq(steps, 1, 4) = <<"os.Stat", "FormatCheckers.Add cpu",
                                  "FormatCheckers.Add memory", "gojsonschema.Validate">>
       /\ {"cpu", "memory"} \subseteq FormatCheckers
       /\ \A i \in 1..Len(steps) :
            steps[i] = "limit/request check" => i = 5 /\ SchemaValid
       /\ ~SchemaValid => ret.kind = "return" /\ ~ret.ok /\ ret.err \notin CheckMessages
       /\ SchemaInvalid => ret = Return(FALSE, Terminated(engineErrors, "\n"))

\* the schema engine has rejected a document that lacks the cpu limit: the
\* call has returned the diagnostic
C16_InvalidAndIncomplete ==
    /\ Called("DeploymentTemplateValidate")
    /\ SchemaInvalid
    /\ HasFlag(templatejson, TRUE)
    /\ Missing(templatejson, 1)
    /\ ret.ok = FALSE

\* two accesses of different calls to one variable other than the registry,
\* at least one of them a write: the code has no lock or channel between them
Conflict(a, b) ==
    /\ a[1] # b[1]
    /\ a[3] = b[3]
    /\ a[3] # "FormatCheckers"
    /\ "write" \in {a[2], b[2]}

\* C17: under any interleaving of concurrent calls of
\* DeploymentTemplateValidate, the only shared state a call writes is the
\* registry of format predicates, so outside the registry no two calls have
\* a write/write or read/write pair.  The code stores the parsers in the
\* globals cpuParser and memoryParser on first use, without synchronisation.
C17_OnlyRegistryShared ==
    /\ \A a \in steps : a[2] = "write" => a[3] = "FormatCheckers"
    /\ \A a, b \in steps : ~Conflict(a, b)

\* C18: every string CpuChecker.IsFormat accepts is parsed by CpuToNumber
\* without error, and every string MemoryChecker.IsFormat accepts is parsed
\* by MemoryToNumber without error.  The cpu predicate takes any run of
\* digits and dots; the parser's number has no dot, so a string that starts
\* with one has an empty number.
C18_AcceptedParses ==
    /\ (Called("CpuToNumber") /\ CpuCheckerIsFormat(Str(arg))) => ret.err = "nil"
    /\ (Called("MemoryToNumber") /\ MemoryCheckerIsFormat(Str(arg))) => ret.err = "nil"

\* the documents on which the two checks are compared: autoscaling enabled,
\* the four containers of limits and requests are maps, and every cpu or
\* memory value that is there is a string
SectionsAreMaps(doc) ==
    \A i \in 1..4 : LET sect == LookupMap(doc, AutoscaleSections[i].path)
                    IN  ~sect.panic /\ sect.ok
Comparable(doc) ==
    /\ HasFlag(doc, TRUE)
    /\ SectionsAreMaps(doc)
    /\ \A i \in 1..8 : Missing(doc, i) \/ TypeOf(Field(doc, i).val) = "string"

\* C19: on a document with autoscaling enabled whose four containers of
\* limits and requests are maps and whose present cpu and memory values are
\* strings, the inline check of DeploymentTemplateValidate and util.Autoscale
\* return the same verdict and the same error message: what either call
\* returned is what the other one computes.
C19_ChecksAgree ==
    (pc = "done" /\ Comparable(templatejson) /\ SchemaValid) =>
        /\ callee = "DeploymentTemplateValidate" => ret = Autoscale(templatejson)
        /\ callee = "Autoscale" => ret = DeploymentTemplateValidate(templatejson)

\* the validator has reported an absent field of such a document
C19_BothReportMissing ==
    /\ Called("DeploymentTemplateValidate") /\ Comparable(templatejson) /\ SchemaValid
    /\ \E i \in 1..8 : Missing(templatejson, i)
    /\ ret = Autoscale(templatejson)
    /\ ~ret.ok

====
